---- MODULE Spec2Model ----
(***************************************************************************)
(* Model of example/mgr.go (StrictSHA1Manager: CheckHeader and Authorize)  *)
(* of gin-contrib-signedauth, together with the request pipeline of the    *)
(* signedauth package that calls it (extract credentials, resolve key,     *)
(* verify signature, authorize).                                           *)
(*                                                                         *)
(* Strings are sequences of tokens, so that "+" of the source is \o.       *)
(* Times are minutes relative to 2024-01-01T00:00:00.000Z.                 *)
(***************************************************************************)
EXTENDS Integers, Sequences, FiniteSets, TLC

(***************************************************************************)
(* Bounds of the model.                                                    *)
(***************************************************************************)
NReq == 2
MaxBodyLen == 1
MaxTicks == 1

Ids == 1..NReq

(***************************************************************************)
(* Program constants.                                                      *)
(***************************************************************************)
\* time.Minute*15, in minutes
Tolerance == 15
\* the largest time.Duration (2^63-1 ns), in whole minutes
MaxDuration == 153722867
\* the access key CheckHeader and Authorize compare with
KnownAccessKey == "my_access_key"
\* status codes of the AuthErr values CheckHeader builds
ErrForged == 400
ErrNoDate == 406
ErrParse == 408
ErrTooOld == 410
ErrReadBody == 402
ErrTeapot == 418
\* status codes of the pipeline itself
ErrCredentials == 400
ErrSignature == 401
StatusOK == 200
NoErr == 0

\* the clock starts at 2024-01-01T00:24
StartNow == Tolerance + 9
MaxNow == StartNow + MaxTicks

(***************************************************************************)
(* Values.                                                                 *)
(***************************************************************************)
NL == "\n"
Bytes == {"a", "b"}

RECURSIVE SeqsUpTo(_, _)
SeqsUpTo(S, n) ==
  IF n = 0 THEN {<< >>}
  ELSE LET shorter == SeqsUpTo(S, n - 1)
       IN  shorter \cup {Append(s, x) : s \in shorter, x \in S}

ByteStrings == SeqsUpTo(Bytes, MaxBodyLen)

\* req.Body: nil, or a reader that yields data and then EOF or an error
NilBody == [nil |-> TRUE, data |-> << >>, fails |-> FALSE]
Bodies ==
  {NilBody} \cup [nil : {FALSE}, data : ByteStrings, fails : BOOLEAN]

\* req.ContentLength: -1 is net/http's "unknown length"
ContentLengths == {-1, 0, 1}

Methods == {"GET", "POST"}
AccessKeys == {KnownAccessKey, "other_key"}
Secrets == {"s3cret", "wrong"}

(***************************************************************************)
(* The Date header and time.Parse("2006-01-02T15:04:05.000Z", ...).        *)
(* A header value is a sequence of tokens; the layout is                   *)
(*   <date and hour up to the colon> <minute tens> <minute units> <rest>.  *)
(***************************************************************************)
DateSuffix == ":00.000Z"
\* the date-and-hour part the layout accepts, with its time in minutes
DayStart ==
  [p \in {"1700-01-01T00:", "2024-01-01T00:", "2400-01-01T00:"} |->
     CASE p = "1700-01-01T00:" -> 0 - 170406720
       [] p = "2024-01-01T00:" -> 0
       [] p = "2400-01-01T00:" -> 197756640]
DigitValue ==
  [d \in {"0", "1", "2", "3", "4", "5", "6", "7", "8", "9"} |->
     CASE d = "0" -> 0 [] d = "1" -> 1 [] d = "2" -> 2 [] d = "3" -> 3
       [] d = "4" -> 4 [] d = "5" -> 5 [] d = "6" -> 6 [] d = "7" -> 7
       [] d = "8" -> 8 [] d = "9" -> 9]

\* time.Parse: err is TRUE when the value does not fit the layout or a
\* field is out of range
ParseDate(h) ==
  IF /\ Len(h) = 4
     /\ h[1] \in DOMAIN DayStart
     /\ h[2] \in DOMAIN DigitValue
     /\ h[3] \in DOMAIN DigitValue
     /\ DigitValue[h[2]] <= 5
     /\ h[4] = DateSuffix
  THEN [err |-> FALSE, t |-> DayStart[h[1]] + 10 * DigitValue[h[2]] + DigitValue[h[3]]]
  ELSE [err |-> TRUE, t |-> 0]

\* the header values a request may carry; << >> is Header.Get's "" (absent)
DatePrefixes == (DOMAIN DayStart) \cup {"Mon, 01 Jan 2024 00:"}
MinuteTens == {"0", "2", "6"}
MinuteUnits == {"0", "5", "9", "x"}
DateHeaders ==
  {<< >>} \cup
  {<<p, d1, d2, DateSuffix>> : p \in DatePrefixes, d1 \in MinuteTens, d2 \in MinuteUnits}

\* a subtraction that wraps around instead of saturating
Since_Wrapping(clock, date) ==
  LET d == clock - date
  IN  IF d > MaxDuration THEN d - (2 * MaxDuration + 1)
      ELSE IF d < 0 - MaxDuration THEN d + (2 * MaxDuration + 1)
      ELSE d

\* time.Since(date) = time.Now().Sub(date): Sub saturates at the largest
\* and smallest Duration instead of overflowing
Since(clock, date) ==
  LET d == clock - date
  IN  IF d > MaxDuration THEN MaxDuration
      ELSE IF d < 0 - MaxDuration THEN 0 - MaxDuration
      ELSE d

\* a request exactly as old as the tolerance counted as too old
TooOld_AtTolerance(clock, date) == Since(clock, date) >= Tolerance

\* time.Since(date) > time.Minute*15
TooOld(clock, date) == Since(clock, date) > Tolerance

(***************************************************************************)
(* md5 + hex.EncodeToString.  The digest is modelled as collision-free: a  *)
(* body is numbered (bijective base-2 numeral over Bytes) and the number   *)
(* is written as two hex digits.                                           *)
(***************************************************************************)
HexDigits == <<"0", "1", "2", "3", "4", "5", "6", "7", "8", "9", "a", "b", "c", "d", "e", "f">>

RECURSIVE Sum(_)
Sum(b) ==
  IF Len(b) = 0 THEN 0
  ELSE 2 * Sum(SubSeq(b, 1, Len(b) - 1)) + (IF b[Len(b)] = "a" THEN 1 ELSE 2)

EncodeToString(n) == <<HexDigits[(n \div 16) + 1], HexDigits[(n % 16) + 1]>>

HexMD5(b) == EncodeToString(Sum(b))

(***************************************************************************)
(* Signatures.  hmac is modelled as collision-free: the digest of a        *)
(* message under a secret is the pair of both.                             *)
(***************************************************************************)
HMAC(secret, msg) == [key |-> secret, msg |-> msg]
\* a signature that is the digest of nothing a caller could have signed
Garbage == [key |-> "<none>", msg |-> <<"garbage">>]

\* method + "\n" + digest-or-empty + "\n" + date
Canonical(method, digest, date) == <<method, NL>> \o digest \o <<NL>> \o date

OtherBytes(b) == IF b = <<"b">> THEN <<"a">> ELSE <<"b">>

\* what a caller may have signed: no digest, the digest of the body sent,
\* or the digest of another body
ClientStrings(method, b, date) ==
  {Canonical(method, d, date) : d \in {<< >>, HexMD5(b.data), HexMD5(OtherBytes(b.data))}}

Signatures(method, b, date) ==
  {Garbage} \cup {HMAC(s, str) : s \in Secrets, str \in ClientStrings(method, b, date)}

(***************************************************************************)
(* Requests.                                                               *)
(***************************************************************************)
NoCredentials(method, cl, b, date) ==
  [Method |-> method, ContentLength |-> cl, Body |-> b, Date |-> date,
   AuthOK |-> FALSE, Access |-> "", Sig |-> Garbage]

Requests ==
  UNION {
    {NoCredentials(method, cl, b, date)} \cup
    {[Method |-> method, ContentLength |-> cl, Body |-> b, Date |-> date,
      AuthOK |-> TRUE, Access |-> a, Sig |-> s] :
        a \in AccessKeys, s \in Signatures(method, b, date)} :
    method \in Methods, cl \in ContentLengths, b \in Bodies, date \in DateHeaders}

\* the slot of a request that never arrives
Absent == NoCredentials("GET", 0, NilBody, << >>)

NoValue == "<none>"
NoResult == [secret |-> "", data |-> << >>, err |-> NoErr]

VARIABLES
  m,              \* the manager: [Secret]
  now,            \* the wall clock
  req,            \* the request each pipeline run serves
  stream,         \* the unread bytes of each request's body
  pc,             \* where each run is
  access,         \* the access key the pipeline extracted
  signature,      \* the signature the pipeline extracted
  checkedAt,      \* the clock reading of the run's date check
  serializedData, \* CheckHeader's local of that name
  body,           \* CheckHeader's local of that name
  hash,           \* the state of the md5 hash object
  ret,            \* what CheckHeader returned
  status,         \* the response status, 0 while undecided
  ctx,            \* the value in the request's context
  keyExamined,    \* how often the access key was compared
  bodyReads,      \* how often the body was read
  hashed,         \* how often a body was digested
  verifyCalls,    \* how often the signature was compared
  authorizeCalls  \* how often Authorize(access) was called

shared == <<m, now>>
inputs == <<req>>
locals == <<access, signature, checkedAt, serializedData, body, hash, stream>>
results == <<ret, status, ctx>>
counters == <<keyExamined, bodyReads, hashed, verifyCalls, authorizeCalls>>
vars == <<shared, inputs, pc, locals, results, counters>>

InitRun(rs, started) ==
  /\ m \in [Secret : {"s3cret"}]
  /\ now = StartNow
  /\ req = rs
  /\ stream = [i \in Ids |-> rs[i].Body.data]
  /\ pc = [i \in Ids |-> IF i \in started THEN "extract" ELSE "absent"]
  /\ access = [i \in Ids |-> ""]
  /\ signature = [i \in Ids |-> Garbage]
  /\ checkedAt = [i \in Ids |-> 0 - 1]
  /\ serializedData = [i \in Ids |-> << >>]
  /\ body = [i \in Ids |-> << >>]
  /\ hash = [i \in Ids |-> << >>]
  /\ ret = [i \in Ids |-> NoResult]
  /\ status = [i \in Ids |-> 0]
  /\ ctx = [i \in Ids |-> NoValue]
  /\ keyExamined = [i \in Ids |-> 0]
  /\ bodyReads = [i \in Ids |-> 0]
  /\ hashed = [i \in Ids |-> 0]
  /\ verifyCalls = [i \in Ids |-> 0]
  /\ authorizeCalls = [i \in Ids |-> 0]

\* one request, every input
Init ==
  \E r \in Requests :
    InitRun([i \in Ids |-> IF i = 1 THEN r ELSE Absent], {1})

(***************************************************************************)
(* StrictSHA1Manager.CheckHeader, statement by statement.                  *)
(***************************************************************************)
Return(i, secret, data, err) ==
  /\ ret' = [ret EXCEPT ![i] = [secret |-> secret, data |-> data, err |-> err]]
  /\ pc' = [pc EXCEPT ![i] = "returned"]

\* req.ContentLength != 0 && req.Body == nil
Forged(r) == r.ContentLength # 0 /\ r.Body.nil

\* the Date header parsed before its presence is tested
ReplayGuard_ParseFirst(dateHeader, clock) ==
  LET parsed == ParseDate(dateHeader)
  IN  IF parsed.err THEN ErrParse
      ELSE IF dateHeader = << >> THEN ErrNoDate
      ELSE IF TooOld(clock, parsed.t) THEN ErrTooOld
      ELSE NoErr

\* the three rules on the Date header, in the order of the source
ReplayGuard(dateHeader, clock) ==
  IF dateHeader = << >> THEN ErrNoDate
  ELSE LET parsed == ParseDate(dateHeader)
       IN  IF parsed.err THEN ErrParse
           ELSE IF TooOld(clock, parsed.t) THEN ErrTooOld
           ELSE NoErr

\* a read whose error is dropped
ReadAll_ErrorIgnored(b, rest) == [data |-> rest, err |-> FALSE]

\* ioutil.ReadAll on what is left of a body
ReadAll(b, rest) == [data |-> rest, err |-> b.fails]

\* one hash object for all runs (a package-level variable)
HashOf_Shared(i) == 1

\* the hash object a run writes to: its own (hash := md5.New() is a local)
HashOf(i) == i

\* any access key that is not empty taken for the known one
KeyAccepted_AnyKey(a) == a # ""

\* access == "my_access_key"
KeyAccepted(a) == a = KnownAccessKey

\* the signing string of a request without a body, its empty line left out
NoBodyData_NoEmptyLine(r) == <<r.Method, NL>> \o r.Date

\* the signing string of a request that declares no body
NoBodyData(r) == <<r.Method, NL>> \o <<NL>> \o r.Date

\* the access key looked up before the structural checks
CheckForged_KeyFirst(i) ==
  /\ pc[i] = "forged"
  /\ keyExamined' = [keyExamined EXCEPT ![i] = @ + 1]
  /\ IF ~KeyAccepted(access[i])
       THEN Return(i, "", << >>, ErrTeapot)
       ELSE IF Forged(req[i])
              THEN Return(i, "", << >>, ErrForged)
              ELSE /\ pc' = [pc EXCEPT ![i] = "date"]
                   /\ UNCHANGED ret
  /\ UNCHANGED <<shared, inputs, locals, status, ctx, bodyReads, hashed, verifyCalls,
                 authorizeCalls>>

CheckForged(i) ==
  /\ pc[i] = "forged"
  /\ IF Forged(req[i])
       THEN Return(i, "", << >>, ErrForged)
       ELSE /\ pc' = [pc EXCEPT ![i] = "date"]
            /\ UNCHANGED ret
  /\ UNCHANGED <<shared, inputs, locals, status, ctx, counters>>

CheckDate(i) ==
  /\ pc[i] = "date"
  /\ checkedAt' = [checkedAt EXCEPT ![i] = now]
  /\ LET err == ReplayGuard(req[i].Date, now)
     IN  IF err # NoErr
           THEN Return(i, "", << >>, err)
           ELSE /\ pc' = [pc EXCEPT ![i] = "key"]
                /\ UNCHANGED ret
  /\ UNCHANGED <<shared, inputs, access, signature, serializedData, body, hash, stream,
                 status, ctx, counters>>

CheckKey(i) ==
  /\ pc[i] = "key"
  /\ keyExamined' = [keyExamined EXCEPT ![i] = @ + 1]
  /\ IF KeyAccepted(access[i])
       THEN IF req[i].ContentLength # 0
              THEN /\ serializedData' = [serializedData EXCEPT ![i] = <<req[i].Method, NL>>]
                   /\ pc' = [pc EXCEPT ![i] = "read"]
                   /\ UNCHANGED ret
              ELSE LET data == NoBodyData(req[i])
                   IN  /\ serializedData' = [serializedData EXCEPT ![i] = data]
                       /\ Return(i, m.Secret, data, NoErr)
       ELSE /\ Return(i, "", << >>, ErrTeapot)
            /\ UNCHANGED serializedData
  /\ UNCHANGED <<shared, inputs, access, signature, checkedAt, body, hash, stream,
                 status, ctx, bodyReads, hashed, verifyCalls, authorizeCalls>>

ReadBody(i) ==
  /\ pc[i] = "read"
  /\ bodyReads' = [bodyReads EXCEPT ![i] = @ + 1]
  /\ stream' = [stream EXCEPT ![i] = << >>]
  /\ LET read == ReadAll(req[i].Body, stream[i])
     IN  IF read.err
           THEN /\ Return(i, "", << >>, ErrReadBody)
                /\ UNCHANGED body
           ELSE /\ body' = [body EXCEPT ![i] = read.data]
                /\ pc' = [pc EXCEPT ![i] = "hash"]
                /\ UNCHANGED ret
  /\ UNCHANGED <<shared, inputs, access, signature, checkedAt, serializedData, hash,
                 status, ctx, keyExamined, hashed, verifyCalls, authorizeCalls>>

\* hash := md5.New(); hash.Write(body)
WriteHash(i) ==
  /\ pc[i] = "hash"
  /\ hash' = [hash EXCEPT ![HashOf(i)] = body[i]]
  /\ pc' = [pc EXCEPT ![i] = "sum"]
  /\ UNCHANGED <<shared, inputs, access, signature, checkedAt, serializedData, body,
                 stream, results, counters>>

\* serializedData += hex.EncodeToString(hash.Sum(nil)) + "\n", then the Date
\* header, then the return
SumAndReturn(i) ==
  /\ pc[i] = "sum"
  /\ hashed' = [hashed EXCEPT ![i] = @ + 1]
  /\ LET data == serializedData[i] \o HexMD5(hash[HashOf(i)]) \o <<NL>> \o req[i].Date
     IN  /\ serializedData' = [serializedData EXCEPT ![i] = data]
         /\ Return(i, m.Secret, data, NoErr)
  /\ UNCHANGED <<shared, inputs, access, signature, checkedAt, body, hash, stream,
                 status, ctx, keyExamined, bodyReads, verifyCalls, authorizeCalls>>

\* StrictSHA1Manager.CheckHeader as one function of its arguments, the clock
\* and the manager's secret
CheckHeader(a, r, clock, secret) ==
  IF Forged(r) THEN [secret |-> "", data |-> << >>, err |-> ErrForged]
  ELSE IF ReplayGuard(r.Date, clock) # NoErr
    THEN [secret |-> "", data |-> << >>, err |-> ReplayGuard(r.Date, clock)]
  ELSE IF ~KeyAccepted(a) THEN [secret |-> "", data |-> << >>, err |-> ErrTeapot]
  ELSE IF r.ContentLength = 0 THEN [secret |-> secret, data |-> NoBodyData(r), err |-> NoErr]
  ELSE LET read == ReadAll(r.Body, r.Body.data)
       IN  IF read.err THEN [secret |-> "", data |-> << >>, err |-> ErrReadBody]
           ELSE [secret |-> secret,
                 data |-> <<r.Method, NL>> \o HexMD5(read.data) \o <<NL>> \o r.Date,
                 err |-> NoErr]

\* StrictSHA1Manager.Authorize
Authorize(a) ==
  IF a = KnownAccessKey THEN "All good with my access key!"
  ELSE "All good with any access key!"

(***************************************************************************)
(* The pipeline that calls the manager, one pass per request.              *)
(***************************************************************************)
Finish(i, code) ==
  /\ status' = [status EXCEPT ![i] = code]
  /\ pc' = [pc EXCEPT ![i] = "done"]

ExtractCredentials(i) ==
  /\ pc[i] = "extract"
  /\ IF req[i].AuthOK
       THEN /\ access' = [access EXCEPT ![i] = req[i].Access]
            /\ signature' = [signature EXCEPT ![i] = req[i].Sig]
            /\ pc' = [pc EXCEPT ![i] = "forged"]
            /\ UNCHANGED status
       ELSE /\ Finish(i, ErrCredentials)
            /\ UNCHANGED <<access, signature>>
  /\ UNCHANGED <<shared, inputs, checkedAt, serializedData, body, hash, stream,
                 ret, ctx, counters>>

\* a pipeline that goes on to the signature whatever CheckHeader returned
ResolveKey_ErrorDropped(i) ==
  /\ pc[i] = "returned"
  /\ pc' = [pc EXCEPT ![i] = "verify"]
  /\ UNCHANGED <<shared, inputs, locals, results, counters>>

\* the pipeline receives CheckHeader's result
ResolveKey(i) ==
  /\ pc[i] = "returned"
  /\ IF ret[i].err # NoErr
       THEN Finish(i, ret[i].err)
       ELSE /\ pc' = [pc EXCEPT ![i] = "verify"]
            /\ UNCHANGED status
  /\ UNCHANGED <<shared, inputs, locals, ret, ctx, counters>>

Verify(secret, data, claimed) == claimed = HMAC(secret, data)

VerifySignature(i) ==
  /\ pc[i] = "verify"
  /\ verifyCalls' = [verifyCalls EXCEPT ![i] = @ + 1]
  /\ IF Verify(ret[i].secret, ret[i].data, signature[i])
       THEN /\ pc' = [pc EXCEPT ![i] = "authorize"]
            /\ UNCHANGED status
       ELSE Finish(i, ErrSignature)
  /\ UNCHANGED <<shared, inputs, locals, ret, ctx, keyExamined, bodyReads, hashed,
                 authorizeCalls>>

AuthorizeRequest(i) ==
  /\ pc[i] = "authorize"
  /\ authorizeCalls' = [authorizeCalls EXCEPT ![i] = @ + 1]
  /\ ctx' = [ctx EXCEPT ![i] = Authorize(access[i])]
  /\ Finish(i, StatusOK)
  /\ UNCHANGED <<shared, inputs, locals, ret, keyExamined, bodyReads, hashed, verifyCalls>>

\* the whole pipeline as one function of the request, the clock and the
\* manager's secret
Pipeline(r, clock, secret) ==
  IF ~r.AuthOK THEN [status |-> ErrCredentials, ctx |-> NoValue]
  ELSE LET res == CheckHeader(r.Access, r, clock, secret)
       IN  IF res.err # NoErr THEN [status |-> res.err, ctx |-> NoValue]
           ELSE IF ~Verify(res.secret, res.data, r.Sig)
             THEN [status |-> ErrSignature, ctx |-> NoValue]
           ELSE [status |-> StatusOK, ctx |-> Authorize(r.Access)]

\* time passes
Tick ==
  /\ now < MaxNow
  /\ now' = now + 1
  /\ UNCHANGED <<m, inputs, pc, locals, results, counters>>

Next ==
  \/ Tick
  \/ \E i \in Ids : ExtractCredentials(i)
  \/ \E i \in Ids : CheckForged(i)
  \/ \E i \in Ids : CheckDate(i)
  \/ \E i \in Ids : CheckKey(i)
  \/ \E i \in Ids : ReadBody(i)
  \/ \E i \in Ids : WriteHash(i)
  \/ \E i \in Ids : SumAndReturn(i)
  \/ \E i \in Ids : ResolveKey(i)
  \/ \E i \in Ids : VerifySignature(i)
  \/ \E i \in Ids : AuthorizeRequest(i)

Spec == Init /\ [][Next]_vars

(***************************************************************************)
(* Concurrent requests: every request slot is served, the runs interleave  *)
(* statement by statement.                                                 *)
(***************************************************************************)
\* a timestamp as old as the tolerance when the clock starts
EdgeDate == <<"2024-01-01T00:", "0", "9", DateSuffix>>
StaleDate == <<"2024-01-01T00:", "0", "5", DateSuffix>>

Readable(data) == [nil |-> FALSE, data |-> data, fails |-> FALSE]
Failing(data) == [nil |-> FALSE, data |-> data, fails |-> TRUE]

Signed(cl, b, date, a, digest) ==
  [Method |-> "GET", ContentLength |-> cl, Body |-> b, Date |-> date,
   AuthOK |-> TRUE, Access |-> a, Sig |-> HMAC("s3cret", Canonical("GET", digest, date))]

ConcRequests ==
  {Signed(0, Readable(d), EdgeDate, KnownAccessKey, << >>) : d \in {<<"a">>, <<"b">>}}
  \cup {Signed(1, Readable(d), EdgeDate, KnownAccessKey, HexMD5(d)) : d \in {<<"a">>, <<"b">>}}
  \cup {Signed(1, Readable(<<"a">>), EdgeDate, "other_key", HexMD5(<<"a">>)),
        Signed(1, Failing(<<"a">>), EdgeDate, KnownAccessKey, HexMD5(<<"a">>)),
        Signed(1, NilBody, EdgeDate, KnownAccessKey, << >>),
        Signed(0, NilBody, StaleDate, KnownAccessKey, << >>),
        NoCredentials("GET", 0, NilBody, EdgeDate)}

InitConc == \E rs \in [Ids -> ConcRequests] : InitRun(rs, Ids)

SpecConc == InitConc /\ [][Next]_vars

TypeOK ==
  /\ now \in StartNow..MaxNow
  /\ \A i \in Ids : status[i] \in {0, 200, 400, 401, 402, 406, 408, 410, 418}

(***************************************************************************)
(* Vocabulary of the properties.                                           *)
(***************************************************************************)
\* CheckHeader was called for request i and has returned
CheckHeaderReturned(i) ==
  \/ pc[i] \in {"returned", "verify", "authorize"}
  \/ pc[i] = "done" /\ req[i].AuthOK

\* the date check of request i has run
DateChecked(i) == checkedAt[i] >= 0

DateMissing(r) == r.Date = << >>
DateParses(r) == ~DateMissing(r) /\ ~ParseDate(r.Date).err
DateUnparseable(r) == ~DateMissing(r) /\ ParseDate(r.Date).err

\* the elapsed time between the date a request carries and a clock reading
Age(r, clock) == clock - ParseDate(r.Date).t

\* the request declares a body
DeclaresBody(r) == r.ContentLength # 0

\* the signing string of section 4.1: verb, digest of the declared body or
\* nothing, and the Date header as sent
SigningString(r) ==
  <<r.Method, NL>>
    \o (IF DeclaresBody(r) THEN HexMD5(r.Body.data) ELSE << >>)
    \o <<NL>> \o r.Date

C2_StaleWhateverTheRest ==
  \A i \in Ids :
    (CheckHeaderReturned(i) /\ DateParses(req[i]) /\ Age(req[i], StartNow) > Tolerance)
      => ret[i].err = ErrTooOld

\* C2, amended: a request that is not turned down as forged (a content
\* length other than zero with no body at all) and whose timestamp is more
\* than the tolerance in the past is answered with 410, whatever its
\* signature, access key and body content; a timestamp exactly at or inside
\* the tolerance is never answered with 410.
C2_StaleUnlessForged ==
  \A i \in Ids :
    (CheckHeaderReturned(i) /\ DateParses(req[i])) =>
      /\ (~Forged(req[i]) /\ Age(req[i], checkedAt[i]) > Tolerance)
            => (ret[i].err = ErrTooOld /\ (pc[i] = "done" => status[i] = ErrTooOld))
      /\ (DateChecked(i) /\ Age(req[i], checkedAt[i]) <= Tolerance)
            => ret[i].err # ErrTooOld
      /\ Forged(req[i]) => ret[i].err = ErrForged

C2_Witness ==
  \E i \in Ids :
    /\ pc[i] = "done" /\ status[i] = ErrTooOld
    /\ Age(req[i], checkedAt[i]) = 20
    /\ req[i].Access = KnownAccessKey
    /\ req[i].Sig = HMAC(m.Secret, SigningString(req[i]))

\* C3: the rules on the Date header are applied in one order and each has
\* its own error: once they are applied to a request, an absent header gives
\* 406, a present header that does not parse gives 408, and 410 is given
\* only to a header that parses and is older than the tolerance; an absent
\* header is never answered with 408 or 410 and an unparseable one never
\* with 406 or 410; the three codes differ.
C3_DateRulesInOrder ==
  /\ ErrNoDate # ErrParse /\ ErrNoDate # ErrTooOld /\ ErrParse # ErrTooOld
  /\ \A i \in Ids :
       CheckHeaderReturned(i) =>
         LET r == req[i]
             err == ret[i].err
         IN  /\ (DateChecked(i) /\ DateMissing(r)) => err = ErrNoDate
             /\ (DateChecked(i) /\ DateUnparseable(r)) => err = ErrParse
             /\ DateMissing(r) => err \notin {ErrParse, ErrTooOld}
             /\ DateUnparseable(r) => err \notin {ErrNoDate, ErrTooOld}
             /\ err = ErrNoDate => DateMissing(r)
             /\ err = ErrParse => DateUnparseable(r)
             /\ err = ErrTooOld => (DateParses(r) /\ Age(r, checkedAt[i]) > Tolerance)
             /\ (DateChecked(i) /\ DateParses(r) /\ Age(r, checkedAt[i]) > Tolerance)
                   => err = ErrTooOld

C3_Witness ==
  \E i \in Ids :
    /\ pc[i] = "done" /\ status[i] = ErrParse
    /\ req[i].Date[1] \in DOMAIN DayStart /\ req[i].Date[2] = "6"

StructuralError(r, clock) ==
  IF DeclaresBody(r) /\ r.Body.nil THEN ErrForged
  ELSE IF DateMissing(r) THEN ErrNoDate
  ELSE IF DateUnparseable(r) THEN ErrParse
  ELSE IF Age(r, clock) > Tolerance THEN ErrTooOld
  ELSE NoErr

\* C5: the access key is examined only after the structural checks have
\* passed: a request with a body declared but absent, no Date header, a Date
\* header that does not parse or one that is too old is answered with that
\* error without its access key ever being examined, so the answer is the
\* same for a known and an unknown key.
C5_KeyAfterStructuralChecks ==
  \A i \in Ids :
    LET r == req[i]
    IN  /\ keyExamined[i] > 0 =>
              (DateChecked(i) /\ StructuralError(r, checkedAt[i]) = NoErr)
        /\ (CheckHeaderReturned(i) /\ ret[i].err \in {ErrForged, ErrNoDate, ErrParse, ErrTooOld}) =>
              /\ keyExamined[i] = 0
              /\ ret[i].err = StructuralError(r, checkedAt[i])
        /\ (CheckHeaderReturned(i)
              /\ (Forged(r) \/ (DateChecked(i) /\ StructuralError(r, checkedAt[i]) # NoErr))) =>
              /\ keyExamined[i] = 0
              /\ ret[i].err = StructuralError(r, checkedAt[i])

C5_Witness ==
  \E i \in Ids :
    /\ pc[i] = "done" /\ status[i] = ErrNoDate
    /\ req[i].Access # KnownAccessKey
    /\ keyExamined[i] = 0

\* C6: on no run with an access key the manager does not know is the body
\* read or digested, a secret returned or the signature compared; when the
\* lookup is reached, CheckHeader answers 418.
C6_UnknownKeyNoDigest ==
  \A i \in Ids :
    LET r == req[i]
    IN  (r.AuthOK /\ r.Access # KnownAccessKey) =>
          /\ bodyReads[i] = 0
          /\ stream[i] = r.Body.data
          /\ hashed[i] = 0
          /\ hash[i] = << >>
          /\ verifyCalls[i] = 0
          /\ authorizeCalls[i] = 0
          /\ ret[i].secret = "" /\ ret[i].data = << >>
          /\ CheckHeaderReturned(i) => ret[i].err # NoErr
          /\ (CheckHeaderReturned(i) /\ keyExamined[i] > 0) => ret[i].err = ErrTeapot
          /\ (CheckHeaderReturned(i) /\ DateChecked(i)
                /\ StructuralError(r, checkedAt[i]) = NoErr) => ret[i].err = ErrTeapot
          /\ (pc[i] = "done" /\ ret[i].err = ErrTeapot) => status[i] = ErrTeapot

C6_Witness ==
  \E i \in Ids :
    /\ pc[i] = "done" /\ status[i] = ErrTeapot
    /\ req[i].ContentLength = 1 /\ req[i].Body.data = <<"a">> /\ ~req[i].Body.fails
    /\ req[i].Sig = HMAC(m.Secret, SigningString(req[i]))
    /\ stream[i] = <<"a">>

\* a request that declares a body which is absent or cannot be read
BodyUnreadable(r) == DeclaresBody(r) /\ (r.Body.nil \/ r.Body.fails)

\* C8 as stated: a request that declares a body which is absent or cannot
\* be read is always answered with 400 or 402.
C8_UnreadableAlwaysMalformed ==
  \A i \in Ids :
    (CheckHeaderReturned(i) /\ BodyUnreadable(req[i])) =>
      ret[i].err \in {ErrForged, ErrReadBody}

\* C8, amended: a request that declares a body which is absent or cannot be
\* read always fails and never with a signature mismatch: CheckHeader
\* returns no secret and no signing string and the signature is never
\* compared.  The answer is 400 when the body is absent; when the body is
\* there but reading fails it is 402 provided the Date header passes its
\* checks and the access key is known, and otherwise the error of the
\* earlier check (406, 408, 410 or 418).
C8_UnreadableNeverVerified ==
  \A i \in Ids :
    LET r == req[i]
    IN  BodyUnreadable(r) =>
          /\ verifyCalls[i] = 0
          /\ authorizeCalls[i] = 0
          /\ ctx[i] = NoValue
          /\ ret[i].secret = "" /\ ret[i].data = << >>
          /\ status[i] \notin {ErrSignature, StatusOK}
          /\ CheckHeaderReturned(i) =>
               /\ ret[i].err # NoErr
               /\ r.Body.nil => ret[i].err = ErrForged
               /\ bodyReads[i] > 0 => ret[i].err = ErrReadBody
               /\ ~r.Body.nil =>
                    ret[i].err =
                      IF StructuralError(r, checkedAt[i]) # NoErr
                        THEN StructuralError(r, checkedAt[i])
                      ELSE IF r.Access # KnownAccessKey THEN ErrTeapot
                      ELSE ErrReadBody
               /\ pc[i] = "done" => status[i] = ret[i].err

C8_Witness ==
  \E i \in Ids :
    /\ pc[i] = "done" /\ status[i] = ErrReadBody
    /\ req[i].Body.fails /\ req[i].Body.data = <<"a">>
    /\ bodyReads[i] = 1

\* C9: within one request the steps run in the order extract credentials,
\* CheckHeader, signature comparison, Authorize, and the first failure ends
\* the run: Authorize is called at most once and only after CheckHeader
\* returned no error and the signature compared equal; a run that fails
\* never calls Authorize and leaves the context empty, and an error of
\* CheckHeader becomes the response status unchanged.
C9_PipelineOrder ==
  \A i \in Ids :
    LET r == req[i]
    IN  /\ authorizeCalls[i] <= 1 /\ verifyCalls[i] <= 1 /\ keyExamined[i] <= 1
        /\ (pc[i] \in {"forged", "date", "key", "read", "hash", "sum", "returned"}) =>
              (r.AuthOK /\ verifyCalls[i] = 0 /\ authorizeCalls[i] = 0)
        /\ (DateChecked(i) \/ keyExamined[i] > 0 \/ bodyReads[i] > 0) => r.AuthOK
        /\ verifyCalls[i] = 1 =>
              (CheckHeaderReturned(i) /\ ret[i].err = NoErr /\ pc[i] # "returned")
        /\ authorizeCalls[i] = 1 =>
              /\ verifyCalls[i] = 1
              /\ ret[i].err = NoErr
              /\ signature[i] = r.Sig
              /\ r.Sig = HMAC(ret[i].secret, ret[i].data)
              /\ pc[i] = "done" /\ status[i] = StatusOK
        /\ pc[i] = "authorize" =>
              (verifyCalls[i] = 1 /\ authorizeCalls[i] = 0
                 /\ r.Sig = HMAC(ret[i].secret, ret[i].data))
        /\ (status[i] # 0) <=> (pc[i] = "done")
        /\ (pc[i] = "done" /\ status[i] # StatusOK) =>
              (authorizeCalls[i] = 0 /\ ctx[i] = NoValue)
        /\ ctx[i] # NoValue =>
              (authorizeCalls[i] = 1 /\ ctx[i] = Authorize(r.Access))
        /\ (pc[i] = "done" /\ r.AuthOK /\ ret[i].err # NoErr) =>
              (status[i] = ret[i].err /\ verifyCalls[i] = 0)
        /\ (pc[i] = "done" /\ ~r.AuthOK) =>
              (status[i] = ErrCredentials /\ ret[i] = NoResult)

C9_Witness ==
  \E i \in Ids :
    /\ pc[i] = "done" /\ status[i] = ErrSignature
    /\ verifyCalls[i] = 1 /\ authorizeCalls[i] = 0
    /\ ret[i].secret = m.Secret
    /\ req[i].Sig.key = "wrong"

\* C7 as stated: of two requests that agree on method and timestamp, the
\* signing strings CheckHeader returns differ when the bodies differ, so
\* that one signature is never accepted for both, and are the same when the
\* bodies are the same, whatever content length each declares.
C7_SigningStringFollowsBody ==
  \A i \in Ids : \A j \in Ids :
    (/\ i # j
     /\ CheckHeaderReturned(i) /\ ret[i].err = NoErr
     /\ CheckHeaderReturned(j) /\ ret[j].err = NoErr
     /\ req[i].Method = req[j].Method /\ req[i].Date = req[j].Date) =>
       /\ req[i].Body.data # req[j].Body.data =>
            /\ ret[i].data # ret[j].data
            /\ ~(req[i].Sig = req[j].Sig /\ status[i] = StatusOK /\ status[j] = StatusOK)
       /\ req[i].Body.data = req[j].Body.data => ret[i].data = ret[j].data

\* the values a step of run i may change
Own(i) ==
  <<pc[i], stream[i], access[i], signature[i], checkedAt[i], serializedData[i], body[i],
    hash[i], ret[i], status[i], ctx[i], keyExamined[i], bodyReads[i], hashed[i],
    verifyCalls[i], authorizeCalls[i]>>

\* C10: requests are verified independently: however the statements of
\* concurrent runs interleave, what CheckHeader returns to a run and the
\* status and context value the run ends with are those of the run alone at
\* the clock reading of its date check; no step writes the manager or a
\* request, and a step changes nothing of a run other than its own.
C10_Independent ==
  /\ [](\A i \in Ids :
          /\ CheckHeaderReturned(i) =>
               ret[i] = CheckHeader(req[i].Access, req[i], checkedAt[i], m.Secret)
          /\ pc[i] = "done" =>
               [status |-> status[i], ctx |-> ctx[i]]
                 = Pipeline(req[i], checkedAt[i], m.Secret))
  /\ [][/\ m' = m
        /\ req' = req
        /\ \A i \in Ids : \A j \in Ids :
             (i # j /\ pc'[i] # pc[i]) => Own(j)' = Own(j)]_vars

C10_Witness ==
  \E i \in Ids : \E j \in Ids :
    /\ i # j
    /\ pc[i] = "done" /\ status[i] = StatusOK /\ hashed[i] = 1
    /\ pc[j] = "done" /\ status[j] = StatusOK /\ hashed[j] = 1
    /\ req[i].Body.data # req[j].Body.data

====
